---- MODULE Spec2Model ----
(***************************************************************************)
(* Model of the crawl engine of main.py: the BFS traversal loop of         *)
(* crawl_documents, the download capture / direct-fetch fallback, the      *)
(* persisted state file (load_state / save_state), the path mapping and    *)
(* the sanitizer.                                                          *)
(*                                                                         *)
(* Strings the program computes on (link texts, URL paths, file names)     *)
(* are sequences of one-character strings, so that sanitize_filename,      *)
(* os.path.basename and the Path "/" operator are computed as the code     *)
(* computes them.  A URL is a record of the parts urlparse/urljoin use.    *)
(***************************************************************************)
EXTENDS Integers, Sequences, FiniteSets, TLC

(***************************************************************************)
(* Bounds of the exploration.                                              *)
(***************************************************************************)
\* number of consecutive runs of the process against the same remote tree
MaxRuns == 2

\* length of the short strings sanitize_filename is applied to
MaxInLen == 3

(***************************************************************************)
(* Strings.                                                                *)
(***************************************************************************)
\* characters replaced by the first re.sub of sanitize_filename
InvalidChars == {"\\", "/", ":", "*", "?", "\"", "<", ">", "|"}

\* characters matched by \s and removed by str.strip()
Whitespace == {" ", "\t", "\n", "\r"}

\* the truncation length of sanitize_filename
MaxNameLen == 200

RECURSIVE LStrip(_)
LStrip(s) ==
    IF s # <<>> /\ Head(s) \in Whitespace THEN LStrip(Tail(s)) ELSE s

RECURSIVE RStrip(_)
RStrip(s) ==
    IF s # <<>> /\ s[Len(s)] \in Whitespace
    THEN RStrip(SubSeq(s, 1, Len(s) - 1))
    ELSE s

\* str.strip()
Strip(s) == RStrip(LStrip(s))

\* re.sub(class+, rep, s): every maximal run of characters of cls becomes
\* rep.  The last character of a run becomes rep and the others are dropped.
SubRuns(s, cls, rep) ==
    LET marked == [i \in 1..Len(s) |->
                      IF s[i] \notin cls THEN s[i]
                      ELSE IF i < Len(s) /\ s[i + 1] \in cls THEN ""
                      ELSE rep]
    IN  SelectSeq(marked, LAMBDA ch : ch # "")

\* a sanitizer that forgets the reserved-character replacement
SanitizeNoReplace(name) ==
    LET t == SubRuns(Strip(name), Whitespace, " ")
    IN  IF Len(t) > MaxNameLen THEN SubSeq(t, 1, MaxNameLen) ELSE t

\* a sanitizer that forgets the truncation
SanitizeNoTruncate(name) ==
    SubRuns(SubRuns(Strip(name), InvalidChars, "_"), Whitespace, " ")

sanitize_filename(name) ==
    LET a == Strip(name)
        b == SubRuns(a, InvalidChars, "_")
        c == SubRuns(b, Whitespace, " ")
    IN  IF Len(c) > MaxNameLen THEN SubSeq(c, 1, MaxNameLen) ELSE c

\* os.path.basename: what follows the last "/"
RECURSIVE basename(_)
basename(p) ==
    IF p = <<>> THEN <<>>
    ELSE IF p[Len(p)] = "/" THEN <<>>
    ELSE basename(SubSeq(p, 1, Len(p) - 1)) \o <<p[Len(p)]>>

\* Python's `x or y` on strings
OrElse(x, y) == IF x # <<>> THEN x ELSE y

\* pathlib: Path / segment.  A path is the sequence of its segments,
\* Path(".") is the empty sequence, and "." or empty segments are dropped.
PathJoin(p, seg) == IF seg = <<>> \/ seg = <<".">> THEN p ELSE Append(p, seg)

(***************************************************************************)
(* URLs.  kind "abs" is a reference that starts with "http" and carries    *)
(* its own network location; "root" is a root-relative href ("/x?q");      *)
(* "net" is a scheme-relative href ("//host/x").                           *)
(***************************************************************************)
Url(netloc, path, query) ==
    [kind |-> "abs", netloc |-> netloc, path |-> path, query |-> query]

RootRel(path, query) ==
    [kind |-> "root", netloc |-> "", path |-> path, query |-> query]

NetRel(netloc, path, query) ==
    [kind |-> "net", netloc |-> netloc, path |-> path, query |-> query]

\* an anchor without href attribute: el.get_attribute("href") or ""
NoHref == [kind |-> "none", netloc |-> "", path |-> <<>>, query |-> ""]

\* str.startswith("http")
StartsWithHttp(h) == h.kind = "abs"

\* urllib.parse.urljoin(base, href) for the href kinds above
urljoin(base, h) ==
    IF h.kind = "root" THEN Url(base.netloc, h.path, h.query)
    ELSE Url(h.netloc, h.path, h.query)

\* urlparse(url).netloc
Netloc(u) == u.netloc

\* `href if href.startswith("http") else urljoin(abs_url, href)`
Resolve(abs_url, h) == IF StartsWithHttp(h) THEN h ELSE urljoin(abs_url, h)

(***************************************************************************)
(* Configuration (environment variables read at import, lines 20-49).      *)
(***************************************************************************)
DocsHost == "docs.example"
OtherHost == "cdn.other"

\* BASE_URL = os.getenv("BASE_URL", "").rstrip("/")
BASE_URL == Url(DocsHost, <<>>, "")

\* DOCS_URL of the documents area
DOCS_URL == Url(DocsHost, <<"/", "r">>, "")

\* LOGIN_URL, when it is set
LOGIN_URL == Url(DocsHost, <<"/", "l", "o", "g", "i", "n">>, "")

\* the configurations explored: RESTRICT_TO_DOMAIN, whether
\* CURRENT_FOLDER_SELECTOR is set, and which of DOCS_URL / BASE_URL are set
\* ("elsewhere": both set, DOCS_URL on another host than BASE_URL; "dots":
\* both set, DOCS_URL a documents area with a folder named ".."), and
\* whether LOGIN_URL is set
Configs ==
    [restrict : BOOLEAN, selector : BOOLEAN, start : {"both"}, login : {FALSE}]
      \cup [restrict : {TRUE}, selector : {FALSE},
            start : {"docs", "elsewhere", "dots"}, login : {FALSE}]
      \cup [restrict : {TRUE}, selector : {FALSE}, start : {"none"}, login : BOOLEAN]

BaseSet(c) == c.start \in {"both", "elsewhere", "dots"}
DocsSet(c) == c.start \in {"both", "docs", "elsewhere", "dots"}

(***************************************************************************)
(* The remote tree: what the browser shows at each URL.  name is the text  *)
(* of the current-folder element, folders and files are the anchors that   *)
(* the two link selectors match, as <<href, inner text, download attr>>.   *)
(***************************************************************************)
uA == Url(DocsHost, <<"/", "a">>, "")
uB == Url(DocsHost, <<"/", "a", "/", "b">>, "")
uC == Url(DocsHost, <<"/", "a", "/", "b", "/", "c">>, "")
uX == Url(OtherHost, <<"/", "x">>, "")
uD == Url(DocsHost, <<"/", "d">>, "")
uE == Url(DocsHost, <<"/", "d", "/", "e">>, "")

uF1 == Url(DocsHost, <<"/", "d", "l">>, "f=1")
uF2 == Url(DocsHost, <<"/", "d", "l">>, "f=2")
uF3 == Url(OtherHost, <<"/", "f", "/">>, "")

FileUrls == {uF1, uF2, uF3}
PageUrls == {DOCS_URL, uA, uB, uC, uX, uD, uE}

tA == <<"A">>
tB == <<"B", ":", "1">>
tC == <<"C">>
tQ1 == <<"Q", "1", ".", "p", "d", "f">>
tQ2 == <<"Q", "2">>
tUp == <<".", ".">>

Anchor(href, text, download) == [href |-> href, text |-> text, download |-> download]

Site(u) ==
    CASE u = DOCS_URL ->
           [name    |-> <<>>,
            folders |-> << Anchor(RootRel(uA.path, ""), tA, <<>>),
                           Anchor(uX, <<"E", "x", "t">>, <<>>) >>,
            files   |-> << Anchor(RootRel(uF1.path, "f=1"), tQ1, <<>>) >>]
      [] u = uA ->
           [name    |-> tA,
            folders |-> << Anchor(RootRel(uB.path, ""), <<" ">> \o tB, <<>>),
                           Anchor(RootRel(DOCS_URL.path, ""), <<"U", "p">>, <<>>) >>,
            files   |-> << Anchor(uF1, tQ1, <<>>),
                           Anchor(RootRel(uF2.path, "f=2"), <<>>, tQ2) >>]
      [] u = uB ->
           [name    |-> tB,
            folders |-> << Anchor(RootRel(uC.path, ""), tC, <<>>),
                           Anchor(NetRel(DocsHost, uC.path, ""), tC, <<>>) >>,
            files   |-> <<>>]
      [] u = uC ->
           [name    |-> tC,
            folders |-> << Anchor(NoHref, <<"n", "o">>, <<>>) >>,
            files   |-> << Anchor(uF3, <<>>, <<>>) >>]
      [] u = uD ->
           [name    |-> <<>>,
            folders |-> << Anchor(RootRel(uE.path, ""), tUp, <<>>) >>,
            files   |-> <<>>]
      [] u = uE ->
           [name    |-> tUp,
            folders |-> <<>>,
            files   |-> << Anchor(RootRel(uF1.path, "f=1"), tQ1, <<>>) >>]
      [] OTHER ->
           [name    |-> <<"X">>,
            folders |-> <<>>,
            files   |-> <<>>]

\* the bytes the remote serves for a file URL (download event or response body)
Body(u) == <<"bytes", u>>

\* the filenames a download event may suggest for a file URL
SuggestedNames(u) ==
    IF u = uF2 THEN {<<"r", "?", ".", "b", "i", "n">>} ELSE {<<>>}

(***************************************************************************)
(* Helpers of main.py.                                                     *)
(***************************************************************************)
\* a same_origin that lets every URL through
SameOriginAlways(c, url, base) == TRUE

\* same_origin (urlparse does not raise on the URLs of this remote tree)
same_origin(c, url, base) ==
    IF ~c.restrict THEN TRUE ELSE Netloc(url) = Netloc(base)

\* the persisted state file: absent, or present with a text that is either
\* the JSON list written by save_state or something json.loads rejects
NoFile == [exists |-> FALSE, json |-> FALSE, list |-> <<>>]
BadText == [exists |-> TRUE, json |-> FALSE, list |-> <<>>]
JsonText(l) == [exists |-> TRUE, json |-> TRUE, list |-> l]

Range(s) == {s[i] : i \in DOMAIN s}

\* a load_state that ignores the file
LoadStateEmpty(f) == {}

load_state(f) ==
    IF f.exists
    THEN IF f.json THEN Range(f.list) ELSE {}
    ELSE {}

\* the file URLs of the remote tree in the order of their text
UrlOrder == <<uF3, uF1, uF2>>
Rank(u) == CHOOSE i \in DOMAIN UrlOrder : UrlOrder[i] = u

\* sorted(done)
RECURSIVE sorted(_)
sorted(S) ==
    IF S = {} THEN <<>>
    ELSE LET m == CHOOSE x \in S : \A y \in S : Rank(x) <= Rank(y)
         IN  <<m>> \o sorted(S \ {m})

\* json.dumps(sorted(done), indent=2)
Dumps(d) == JsonText(sorted(d))

\* collect_links: anchors without href are dropped, texts are stripped, a
\* file's name is its download attribute or else its text
RECURSIVE collect_folders(_)
collect_folders(as) ==
    IF as = <<>> THEN <<>>
    ELSE LET a == Head(as)
         IN  (IF a.href.kind # "none"
              THEN << [href |-> a.href, text |-> Strip(a.text)] >>
              ELSE <<>>) \o collect_folders(Tail(as))

RECURSIVE collect_files(_)
collect_files(as) ==
    IF as = <<>> THEN <<>>
    ELSE LET a == Head(as)
         IN  (IF a.href.kind # "none"
              THEN << [href |-> a.href, text |-> OrElse(a.download, Strip(a.text))] >>
              ELSE <<>>) \o collect_files(Tail(as))

\* get_current_folder_name
get_current_folder_name(c, u) ==
    IF ~c.selector THEN <<>> ELSE Strip(Site(u).name)

(***************************************************************************)
(* State.                                                                  *)
(***************************************************************************)
VARIABLES
    cfg,        \* the configuration of the process (fixed)
    run,        \* number of the current run of the process
    pc,         \* position of the process in crawl_documents
    done,       \* the in-memory DownloadedSet
    queue,      \* the frontier: sequence of [url, rel, chain]
    visited,    \* the visited set
    cur,        \* abs_url, effective_rel of the page being processed
    files,      \* file links of the current page not yet processed
    dl,         \* the file download in flight
    disk,       \* files under DOWNLOAD_ROOT: set of [path, bytes], one per path
    dirs,       \* directories created under DOWNLOAD_ROOT
    stateFile,  \* STATE_FILE
    exitWhy,    \* why the process stopped
    navCount,   \* history: page.goto calls of the traversal loop, per URL, this run
    saveCount,  \* history: completed saves (bytes written, URL recorded), per URL, this run
    committed,  \* history: URLs whose commit (write, insert, save_state) completed this run
    writes,     \* history: file writes of this run
    prevStore,  \* history: the set persisted when the previous run stopped
    prevExit,   \* history: why the previous run stopped
    requests,   \* history: navigations, injected clicks and direct fetches of this run
    san         \* a call of sanitize_filename: its argument and its result

proc == <<pc, done, queue, visited, cur, files, dl, exitWhy>>
store == <<disk, dirs, stateFile>>
hist == <<navCount, saveCount, committed, writes, prevStore, prevExit, requests>>
vars == <<cfg, run, proc, store, hist, san>>

NoUrl == NoHref
NoCur == [abs_url |-> NoUrl, effective_rel |-> <<>>, chain |-> <<>>]
NoDl == [url |-> NoUrl, text |-> <<>>, via |-> "", signal |-> FALSE,
         suggested |-> <<>>, out_path |-> <<>>]

NoSan == [input |-> <<>>, output |-> <<>>, applied |-> FALSE]

Running == {"loop", "files", "wait_event", "save_as", "fetch", "write_bytes",
            "add", "save_open", "save_write"}
Stopped == {"done", "aborted", "crashed", "killed"}

\* the URLs a state file holds when it is the list save_state wrote
Content(f) == IF f.exists /\ f.json THEN Range(f.list) ELSE {}

Init ==
    /\ cfg \in Configs
    /\ run = 1
    /\ pc = "start"
    /\ done = {}
    /\ queue = <<>>
    /\ visited = {}
    /\ cur = NoCur
    /\ files = <<>>
    /\ dl = NoDl
    /\ disk = {}
    /\ dirs = {}
    /\ stateFile \in (IF cfg.start = "none" THEN {NoFile, BadText, Dumps({uF1})} ELSE {NoFile})
    /\ exitWhy = ""
    /\ navCount = [u \in PageUrls |-> 0]
    /\ saveCount = [u \in FileUrls |-> 0]
    /\ committed = {}
    /\ writes = {}
    /\ prevStore = Content(stateFile)
    /\ prevExit = ""
    /\ requests = {}
    /\ san = NoSan

(***************************************************************************)
(* crawl_documents, lines 129-144: load the state, log in, resolve the     *)
(* start URL.                                                              *)
(***************************************************************************)
\* login, lines 86-98: nothing when LOGIN_URL is empty, else the login page
\* is opened and the form submitted
LoggedIn ==
    /\ requests' = (IF cfg.login
                    THEN requests \cup {[kind |-> "login", url |-> LOGIN_URL]}
                    ELSE requests)
    /\ UNCHANGED <<navCount, saveCount, committed, writes, prevStore, prevExit>>

\* line 135: a step of login raises (page.goto, fill or click); nothing
\* catches it
LoginError ==
    /\ pc = "start"
    /\ cfg.login
    /\ done' = load_state(stateFile)
    /\ dirs' = dirs \cup {<<>>}
    /\ requests' = requests \cup {[kind |-> "login", url |-> LOGIN_URL]}
    /\ pc' = "crashed"
    /\ exitWhy' = "login_error"
    /\ UNCHANGED <<cfg, san, run, queue, visited, cur, files, dl, disk, stateFile,
                   navCount, saveCount, committed, writes, prevStore, prevExit>>

\* start = DOCS_URL or BASE_URL
StartUrl(c) ==
    IF DocsSet(c)
    THEN (IF c.start = "elsewhere" THEN uX
          ELSE IF c.start = "dots" THEN uD ELSE DOCS_URL)
    ELSE BASE_URL

\* an abort that comes after the frontier was set up
StartAbortAfterQueue ==
    /\ pc = "start"
    /\ ~DocsSet(cfg) /\ ~BaseSet(cfg)
    /\ done' = load_state(stateFile)
    /\ dirs' = dirs \cup {<<>>}
    /\ queue' = << [url |-> BASE_URL, rel |-> <<>>, chain |-> <<>>] >>
    /\ LoggedIn
    /\ pc' = "aborted"
    /\ exitWhy' = "no_start_url"
    /\ UNCHANGED <<cfg, san, run, visited, cur, files, dl, disk, stateFile>>

\* lines 130-140: no start URL, SystemExit
StartAbort ==
    /\ pc = "start"
    /\ ~DocsSet(cfg) /\ ~BaseSet(cfg)
    /\ done' = load_state(stateFile)
    /\ dirs' = dirs \cup {<<>>}
    /\ LoggedIn
    /\ pc' = "aborted"
    /\ exitWhy' = "no_start_url"
    /\ UNCHANGED <<cfg, san, run, queue, visited, cur, files, dl, disk, stateFile>>

StartCrawl ==
    /\ pc = "start"
    /\ DocsSet(cfg) \/ BaseSet(cfg)
    /\ done' = load_state(stateFile)
    /\ dirs' = dirs \cup {<<>>}
    /\ queue' = << [url |-> StartUrl(cfg), rel |-> <<>>, chain |-> <<>>] >>
    /\ visited' = {}
    /\ LoggedIn
    /\ pc' = "loop"
    /\ UNCHANGED <<cfg, san, run, cur, files, dl, exitWhy, disk, stateFile>>

(***************************************************************************)
(* The traversal loop, lines 146-179.                                      *)
(***************************************************************************)
\* line 148
AbsUrl(c, url) == IF StartsWithHttp(url) THEN url ELSE urljoin(BASE_URL, url)

\* `BASE_URL or abs_url`
OriginBase(c, abs_url) == IF BaseSet(c) THEN BASE_URL ELSE abs_url

HeadAbs == AbsUrl(cfg, Head(queue).url)

\* line 150
IsVisited(u, v) == u \in v

\* the entry passes the checks of lines 150-153 and is navigated to
Navigable ==
    /\ pc = "loop"
    /\ queue # <<>>
    /\ ~IsVisited(HeadAbs, visited)
    /\ ~(cfg.restrict /\ ~same_origin(cfg, HeadAbs, OriginBase(cfg, HeadAbs)))

\* line 146 with an empty queue, line 223
LoopExit ==
    /\ pc = "loop"
    /\ queue = <<>>
    /\ pc' = "done"
    /\ exitWhy' = "frontier_empty"
    /\ UNCHANGED <<cfg, san, run, done, queue, visited, cur, files, dl, store, hist>>

\* lines 147-151
PopVisited ==
    /\ pc = "loop"
    /\ queue # <<>>
    /\ IsVisited(HeadAbs, visited)
    /\ queue' = Tail(queue)
    /\ UNCHANGED <<cfg, san, run, pc, done, visited, cur, files, dl, exitWhy, store, hist>>

\* lines 147-153
PopOtherOrigin ==
    /\ pc = "loop"
    /\ queue # <<>>
    /\ ~IsVisited(HeadAbs, visited)
    /\ cfg.restrict /\ ~same_origin(cfg, HeadAbs, OriginBase(cfg, HeadAbs))
    /\ queue' = Tail(queue)
    /\ UNCHANGED <<cfg, san, run, pc, done, visited, cur, files, dl, exitWhy, store, hist>>

Navigated(u) ==
    /\ navCount' = [navCount EXCEPT ![u] = @ + 1]
    /\ requests' = requests \cup {[kind |-> "goto", url |-> u]}

\* lines 156-160: page.goto raises PlaywrightTimeoutError
NavTimeout ==
    /\ Navigable
    /\ Navigated(HeadAbs)
    /\ queue' = Tail(queue)
    /\ UNCHANGED <<cfg, san, run, pc, done, visited, cur, files, dl, exitWhy, store,
                   saveCount, committed, writes, prevStore, prevExit>>

\* line 157: page.goto raises an error that is not a timeout; nothing
\* catches it and it leaves crawl_documents
NavError ==
    /\ Navigable
    /\ Navigated(HeadAbs)
    /\ queue' = Tail(queue)
    /\ pc' = "crashed"
    /\ exitWhy' = "navigation_error"
    /\ UNCHANGED <<cfg, san, run, done, visited, cur, files, dl, store,
                   saveCount, committed, writes, prevStore, prevExit>>

\* a frontier that puts the folder links of a page in front of the entries
\* already waiting
RECURSIVE EnqueueFront(_, _, _, _, _, _)
EnqueueFront(c, q, abs_url, effective_rel, chain, folders) ==
    IF folders = <<>> THEN q
    ELSE LET f == Head(folders)
             next_url == Resolve(abs_url, f.href)
             next_rel == PathJoin(effective_rel,
                                  sanitize_filename(OrElse(f.text, <<"f", "o", "l", "d", "e", "r">>)))
             entry == [url |-> next_url, rel |-> next_rel,
                       chain |-> Append(chain, [kind |-> "link", text |-> f.text])]
         IN  IF c.restrict /\ ~same_origin(c, next_url, OriginBase(c, abs_url))
             THEN EnqueueFront(c, q, abs_url, effective_rel, chain, Tail(folders))
             ELSE <<entry>> \o EnqueueFront(c, q, abs_url, effective_rel, chain, Tail(folders))

\* lines 174-179: the queue after the folder links of the page are appended
RECURSIVE Enqueue(_, _, _, _, _, _)
Enqueue(c, q, abs_url, effective_rel, chain, folders) ==
    IF folders = <<>> THEN q
    ELSE LET f == Head(folders)
             next_url == Resolve(abs_url, f.href)
             next_rel == PathJoin(effective_rel,
                                  sanitize_filename(OrElse(f.text, <<"f", "o", "l", "d", "e", "r">>)))
             entry == [url |-> next_url, rel |-> next_rel,
                       chain |-> Append(chain, [kind |-> "link", text |-> f.text])]
         IN  IF c.restrict /\ ~same_origin(c, next_url, OriginBase(c, abs_url))
             THEN Enqueue(c, q, abs_url, effective_rel, chain, Tail(folders))
             ELSE Enqueue(c, Append(q, entry), abs_url, effective_rel, chain, Tail(folders))

\* line 167
EffectiveRel(rel_path, current_folder) ==
    IF current_folder # <<>>
    THEN PathJoin(rel_path, sanitize_filename(current_folder))
    ELSE rel_path

\* lines 156-179: the navigation succeeds
NavOk ==
    /\ Navigable
    /\ Navigated(HeadAbs)
    /\ LET abs_url == HeadAbs
           e == Head(queue)
           current_folder == get_current_folder_name(cfg, abs_url)
           effective_rel == EffectiveRel(e.rel, current_folder)
           chain == IF current_folder # <<>>
                    THEN Append(e.chain, [kind |-> "signal", text |-> current_folder])
                    ELSE e.chain
           folders == collect_folders(Site(abs_url).folders)
       IN  /\ visited' = visited \cup {abs_url}
           /\ dirs' = dirs \cup {effective_rel}
           /\ cur' = [abs_url |-> abs_url, effective_rel |-> effective_rel, chain |-> chain]
           /\ queue' = Enqueue(cfg, Tail(queue), abs_url, effective_rel, chain, folders)
           /\ files' = collect_files(Site(abs_url).files)
    /\ pc' = "files"
    /\ UNCHANGED <<cfg, san, run, done, dl, exitWhy, disk, stateFile,
                   saveCount, committed, writes, prevStore, prevExit>>

(***************************************************************************)
(* The file loop, lines 182-221.                                           *)
(***************************************************************************)
FileUrl == Resolve(cur.abs_url, Head(files).href)

\* a membership test that never finds the URL
AlreadyDownloadedNever(u, d) == FALSE

\* line 184
AlreadyDownloaded(u, d) == u \in d

FileLit == <<"f", "i", "l", "e">>

\* DOWNLOAD_ROOT / effective_rel / suggested, relative to DOWNLOAD_ROOT
OutPath(effective_rel, suggested) == PathJoin(effective_rel, suggested)

\* line 215
CaptureName(suggested_filename, text) ==
    sanitize_filename(OrElse(suggested_filename, OrElse(text, FileLit)))

\* a fallback name taken from the link text alone
FallbackNameFromText(file_url, text) == sanitize_filename(OrElse(text, FileLit))

\* line 201
FallbackName(file_url, text) ==
    sanitize_filename(OrElse(basename(file_url.path), OrElse(text, FileLit)))

\* the disk after bytes b are written at path p
WriteFile(d, p, b) == {e \in d : e.path # p} \cup {[path |-> p, bytes |-> b]}

\* line 182 with no file link left: back to the traversal loop
FilesDone ==
    /\ pc = "files"
    /\ files = <<>>
    /\ pc' = "loop"
    /\ UNCHANGED <<cfg, san, run, done, queue, visited, cur, files, dl, exitWhy, store, hist>>

\* lines 183-186
FileSkip ==
    /\ pc = "files"
    /\ files # <<>>
    /\ AlreadyDownloaded(FileUrl, done)
    /\ files' = Tail(files)
    /\ UNCHANGED <<cfg, san, run, pc, done, queue, visited, cur, dl, exitWhy, store, hist>>

Clicked(u) ==
    /\ requests' = requests \cup {[kind |-> "click", url |-> u]}
    /\ UNCHANGED <<navCount, saveCount, committed, writes, prevStore, prevExit>>

\* lines 190-195: the click is injected and expect_download times out
CaptureTimeout ==
    /\ pc = "files"
    /\ files # <<>>
    /\ ~AlreadyDownloaded(FileUrl, done)
    /\ Clicked(FileUrl)
    /\ dl' = [NoDl EXCEPT !.url = FileUrl, !.text = Head(files).text, !.via = "fallback"]
    /\ pc' = "fetch"
    /\ UNCHANGED <<cfg, san, run, done, queue, visited, cur, files, exitWhy, store>>

\* lines 190-193: the click is injected and expect_download gets its event
CaptureSignal ==
    /\ pc = "files"
    /\ files # <<>>
    /\ ~AlreadyDownloaded(FileUrl, done)
    /\ Clicked(FileUrl)
    /\ dl' = [NoDl EXCEPT !.url = FileUrl, !.text = Head(files).text, !.signal = TRUE]
    /\ pc' = "wait_event"
    /\ UNCHANGED <<cfg, san, run, done, queue, visited, cur, files, exitWhy, store>>

\* lines 194-195: wait_for_event waits for a further download event and
\* times out
WaitTimeout ==
    /\ pc = "wait_event"
    /\ dl' = [dl EXCEPT !.via = "fallback"]
    /\ pc' = "fetch"
    /\ UNCHANGED <<cfg, san, run, done, queue, visited, cur, files, exitWhy, store, hist>>

\* line 194: a further download event arrives
WaitSignal ==
    /\ pc = "wait_event"
    /\ \E n \in SuggestedNames(dl.url) :
         dl' = [dl EXCEPT !.via = "capture", !.suggested = n]
    /\ pc' = "save_as"
    /\ UNCHANGED <<cfg, san, run, done, queue, visited, cur, files, exitWhy, store, hist>>

Written(u, p, via) ==
    /\ writes' = writes \cup {[url |-> u, path |-> p, chain |-> cur.chain, via |-> via]}
    /\ UNCHANGED <<navCount, saveCount, committed, prevStore, prevExit, requests>>

\* lines 215-219
SaveAs ==
    /\ pc = "save_as"
    /\ LET out_path == OutPath(cur.effective_rel, CaptureName(dl.suggested, dl.text))
       IN  /\ dl' = [dl EXCEPT !.out_path = out_path]
           /\ dirs' = dirs \cup {cur.effective_rel}
           /\ disk' = WriteFile(disk, out_path, Body(dl.url))
           /\ Written(dl.url, out_path, "capture")
    /\ pc' = "add"
    /\ UNCHANGED <<cfg, san, run, done, queue, visited, cur, files, exitWhy, stateFile>>

\* line 218: download.save_as raises; the else branch has no handler
SaveAsError ==
    /\ pc = "save_as"
    /\ dirs' = dirs \cup {cur.effective_rel}
    /\ pc' = "crashed"
    /\ exitWhy' = "save_as_error"
    /\ UNCHANGED <<cfg, san, run, done, queue, visited, cur, files, dl, disk, stateFile, hist>>

Fetched(u) ==
    /\ requests' = requests \cup {[kind |-> "fetch", url |-> u]}
    /\ UNCHANGED <<navCount, saveCount, committed, writes, prevStore, prevExit>>

\* lines 198, 210-212: the direct navigation raises (timeout or other error)
FetchError ==
    /\ pc = "fetch"
    /\ Fetched(dl.url)
    /\ files' = Tail(files)
    /\ dl' = NoDl
    /\ pc' = "files"
    /\ UNCHANGED <<cfg, san, run, done, queue, visited, cur, exitWhy, store>>

\* a failed fetch that records the URL all the same
FetchNotOkRecorded ==
    /\ pc = "fetch"
    /\ Fetched(dl.url)
    /\ done' = done \cup {dl.url}
    /\ files' = Tail(files)
    /\ dl' = NoDl
    /\ pc' = "files"
    /\ UNCHANGED <<cfg, san, run, queue, visited, cur, exitWhy, store>>

\* lines 198-200, 209: no response, or a response that is not ok
FetchNotOk ==
    /\ pc = "fetch"
    /\ Fetched(dl.url)
    /\ files' = Tail(files)
    /\ dl' = NoDl
    /\ pc' = "files"
    /\ UNCHANGED <<cfg, san, run, done, queue, visited, cur, exitWhy, store>>

\* lines 198-204: an ok response
FetchOk ==
    /\ pc = "fetch"
    /\ Fetched(dl.url)
    /\ dl' = [dl EXCEPT !.out_path =
                OutPath(cur.effective_rel, FallbackName(dl.url, dl.text))]
    /\ dirs' = dirs \cup {cur.effective_rel}
    /\ pc' = "write_bytes"
    /\ UNCHANGED <<cfg, san, run, done, queue, visited, cur, files, exitWhy, disk, stateFile>>

\* a write that is skipped while the commit goes on
WriteBytesSkipped ==
    /\ pc = "write_bytes"
    /\ pc' = "add"
    /\ UNCHANGED <<cfg, san, run, done, queue, visited, cur, files, dl, exitWhy, store, hist>>

\* line 205
WriteBytes ==
    /\ pc = "write_bytes"
    /\ disk' = WriteFile(disk, dl.out_path, Body(dl.url))
    /\ Written(dl.url, dl.out_path, "fallback")
    /\ pc' = "add"
    /\ UNCHANGED <<cfg, san, run, done, queue, visited, cur, files, dl, exitWhy, dirs, stateFile>>

\* lines 207, 220
DoneAdd ==
    /\ pc = "add"
    /\ done' = done \cup {dl.url}
    /\ saveCount' = [saveCount EXCEPT ![dl.url] = @ + 1]
    /\ pc' = "save_open"
    /\ UNCHANGED <<cfg, san, run, queue, visited, cur, files, dl, exitWhy, store,
                   navCount, committed, writes, prevStore, prevExit, requests>>

\* save_state, line 81: write_text opens STATE_FILE for writing, which
\* empties it
SaveOpen ==
    /\ pc = "save_open"
    /\ stateFile' = BadText
    /\ pc' = "save_write"
    /\ UNCHANGED <<cfg, san, run, done, queue, visited, cur, files, dl, exitWhy, disk, dirs, hist>>

\* save_state, line 81: the text is written and the file closed; the
\* iteration of the file loop ends
SaveWrite ==
    /\ pc = "save_write"
    /\ stateFile' = Dumps(done)
    /\ committed' = committed \cup {dl.url}
    /\ files' = Tail(files)
    /\ dl' = NoDl
    /\ pc' = "files"
    /\ UNCHANGED <<cfg, san, run, done, queue, visited, cur, exitWhy, disk, dirs,
                   navCount, saveCount, writes, prevStore, prevExit, requests>>

(***************************************************************************)
(* The process is killed; the process is run again.                        *)
(***************************************************************************)
Kill ==
    /\ pc \in Running
    /\ pc' = "killed"
    /\ exitWhy' = "killed"
    /\ UNCHANGED <<cfg, san, run, done, queue, visited, cur, files, dl, store, hist>>

\* a new process: nothing in memory survives, the disk does
NextRun ==
    /\ pc \in Stopped
    /\ run < MaxRuns
    /\ run' = run + 1
    /\ pc' = "start"
    /\ done' = {}
    /\ queue' = <<>>
    /\ visited' = {}
    /\ cur' = NoCur
    /\ files' = <<>>
    /\ dl' = NoDl
    /\ exitWhy' = ""
    /\ navCount' = [u \in PageUrls |-> 0]
    /\ saveCount' = [u \in FileUrls |-> 0]
    /\ committed' = {}
    /\ writes' = {}
    /\ requests' = {}
    /\ prevStore' = Content(stateFile)
    /\ prevExit' = exitWhy
    /\ UNCHANGED <<cfg, san, store>>

Next ==
    \/ LoginError
    \/ StartAbort
    \/ StartCrawl
    \/ LoopExit
    \/ PopVisited
    \/ PopOtherOrigin
    \/ NavTimeout
    \/ NavError
    \/ NavOk
    \/ FilesDone
    \/ FileSkip
    \/ CaptureTimeout
    \/ CaptureSignal
    \/ WaitTimeout
    \/ WaitSignal
    \/ SaveAs
    \/ SaveAsError
    \/ FetchError
    \/ FetchNotOk
    \/ FetchOk
    \/ WriteBytes
    \/ DoneAdd
    \/ SaveOpen
    \/ SaveWrite
    \/ Kill
    \/ NextRun

Spec == Init /\ [][Next]_vars

(***************************************************************************)
(* Properties.                                                             *)
(***************************************************************************)
SavedUrls == {u \in FileUrls : saveCount[u] > 0}

\* C1 as stated: a second run that follows a completed first run with a
\* populated persisted set saves no file and persists no new URL.
C1_SecondRunDownloadsNothing ==
    (run = 2 /\ prevExit = "frontier_empty" /\ prevStore # {})
        => /\ SavedUrls = {}
           /\ writes = {}
           /\ Content(stateFile) \subseteq prevStore

\* C1 as amended: a run never saves or writes a file whose URL is in the set
\* the previous run left persisted, and every URL the state file holds beyond
\* that set is one this run saved itself (a file the previous run left
\* unsaved); such files are the only downloads of the second run.
C1_SecondRunDownloadsOnlyUnsaved ==
    /\ \A u \in SavedUrls : u \notin prevStore
    /\ \A w \in writes : w.url \notin prevStore
    /\ Content(stateFile) \subseteq prevStore \cup SavedUrls

\* a second run over a populated store, after a completed first run, ends
\* having saved nothing
C1_Witness ==
    /\ run = 2 /\ prevExit = "frontier_empty" /\ prevStore # {}
    /\ pc = "done"
    /\ SavedUrls = {} /\ writes = {}
    /\ [kind |-> "goto", url |-> uA] \in requests

\* C2 as stated: within one run the traversal loop navigates to each resolved
\* absolute URL at most once, whatever the outcome of the navigation.
C2_NoDuplicateVisits == \A u \in PageUrls : navCount[u] <= 1

\* C3 as stated: when the process is killed, every URL whose commit (write,
\* insert, save_state) completed before the kill is in the persisted store.
C3_CrashDurability == (pc = "killed") => committed \subseteq Content(stateFile)

LinkTexts(chain) == SelectSeq(chain, LAMBDA s : s.kind = "link")
Signals(chain) == SelectSeq(chain, LAMBDA s : s.kind = "signal")
DirOf(path) == SubSeq(path, 1, Len(path) - 1)
FolderLit == <<"f", "o", "l", "d", "e", "r">>

\* the directory segment a step of the chain stands for
SegmentOf(step) ==
    IF step.kind = "link" THEN sanitize_filename(OrElse(step.text, FolderLit))
    ELSE sanitize_filename(step.text)

BaseNetloc == IF BaseSet(cfg) THEN Netloc(BASE_URL) ELSE Netloc(StartUrl(cfg))

\* C5: with RESTRICT_TO_DOMAIN on, no frontier entry that comes from a folder
\* link has a network location other than the base URL's.
C5_OriginContainment ==
    cfg.restrict =>
        \A i \in DOMAIN queue :
            queue[i].chain # <<>> => Netloc(queue[i].url) = BaseNetloc

\* the start page, which links a folder on another host, has been expanded
\* under the restriction
C5_Witness ==
    /\ cfg.restrict
    /\ cur.abs_url = DOCS_URL
    /\ pc = "files"
    /\ \E i \in DOMAIN queue : queue[i].url = uA
    /\ \E i \in DOMAIN Site(DOCS_URL).folders :
           Netloc(Site(DOCS_URL).folders[i].href) = OtherHost

\* C6 as stated: once the download event has arrived after the injected
\* click, the file is saved through the capture path; the direct fetch is
\* entered only when no download event arrived.
C6_FallbackOnlyWithoutSignal == (pc = "fetch") => ~dl.signal

\* the file at path p holds exactly the bytes b
Holds(d, p, b) == \A e \in d : e.path = p => e.bytes = b
OnDisk(d, p, b) == [path |-> p, bytes |-> b] \in d /\ Holds(d, p, b)

\* the name C7 expects: the URL's final path segment, else the link text,
\* else "file", sanitized
C7_Name(u, text) ==
    LET seg == basename(u.path)
    IN  sanitize_filename(IF seg # <<>> THEN seg
                          ELSE IF text # <<>> THEN text ELSE FileLit)

\* C7: after the capture timed out and the direct navigation returned an ok
\* response, each step of the commit that is taken does its part: the body is
\* written at effective_rel/name, then the URL is inserted into the
\* DownloadedSet, then the state file holds it, with the file still in place.
C7_FallbackCorrectness ==
    [][ /\ (pc = "write_bytes" /\ pc' # "killed")
            => /\ pc' = "add"
               /\ OnDisk(disk', Append(cur.effective_rel, C7_Name(dl.url, dl.text)),
                         Body(dl.url))
        /\ (pc = "add" /\ dl.via = "fallback" /\ pc' # "killed")
            => /\ pc' = "save_open"
               /\ dl.url \in done'
        /\ (pc = "save_open" /\ dl.via = "fallback" /\ pc' # "killed")
            => pc' = "save_write"
        /\ (pc = "save_write" /\ dl.via = "fallback" /\ pc' # "killed")
            => /\ pc' = "files"
               /\ dl.url \in done'
               /\ dl.url \in Content(stateFile')
               /\ OnDisk(disk', Append(cur.effective_rel, C7_Name(dl.url, dl.text)),
                         Body(dl.url))
      ]_vars

\* a fallback commit has completed: file on disk, URL in memory and persisted
C7_Witness ==
    \E w \in writes :
        /\ w.via = "fallback"
        /\ w.url = uF1
        /\ w.path = << <<"d", "l">> >>
        /\ w.url \in committed
        /\ w.url \in done
        /\ w.url \in Content(stateFile)
        /\ OnDisk(disk, w.path, Body(uF1))

\* C8 as stated: no per-node or per-file failure ends the run; the only
\* abnormal end is the missing start URL.
C8_ErrorContainment == (pc \in {"aborted", "crashed"}) => exitWhy = "no_start_url"

\* C9: within a run no URL is saved twice, and a file reference whose URL is
\* in the DownloadedSet is passed over with no click, no fetch, no file write
\* and no change of the set or of the state file.
C9_DownloadAtMostOnce ==
    /\ [](\A u \in FileUrls : saveCount[u] <= 1)
    /\ [][ (pc = "files" /\ files # <<>> /\ FileUrl \in done)
             => /\ requests' = requests
                /\ writes' = writes
                /\ disk' = disk
                /\ done' = done
                /\ stateFile' = stateFile
                /\ pc' = "killed" \/ (pc' = "files" /\ files' = Tail(files))
         ]_vars

\* on page /a the first file link, saved earlier in this run from the start
\* page, has been passed over
C9_Witness ==
    /\ pc = "files"
    /\ cur.abs_url = uA
    /\ Len(files) = 1
    /\ saveCount[uF1] = 1
    /\ \E w \in writes : w.url = uF1 /\ w.chain = <<>>

\* C10: every URL that entered the in-memory or the persisted DownloadedSet
\* during the run had its file written before, and a URL the state file gained
\* during the run was inserted in memory before.
C10_Soundness ==
    /\ \A u \in (done \cup Content(stateFile)) \ prevStore :
           \E w \in writes : w.url = u
    /\ pc # "start" => Content(stateFile) \subseteq done

\* a kill between the insert and the save: the URL is in memory, its file is
\* written, the state file does not hold it
C10_Witness ==
    /\ pc = "killed"
    /\ \E u \in done \ prevStore :
           /\ u \notin Content(stateFile)
           /\ \E w \in writes : w.url = u /\ OnDisk(disk, w.path, Body(u))

\* C11 as stated: with RESTRICT_TO_DOMAIN on, no navigation, injected click or
\* direct fetch goes to a URL whose network location is not the base URL's.
C11_RequestsConfined ==
    cfg.restrict => \A r \in requests : Netloc(r.url) = BaseNetloc

(***************************************************************************)
(* sanitize_filename on its own: the function is applied to one argument,  *)
(* drawn from the short strings over a small alphabet and from strings     *)
(* around the truncation length.  The crawl does not run.                  *)
(***************************************************************************)
SanAlphabet == {"a", " ", "\t", "/", ":", "."}

Short(n) == UNION {[1..k -> SanAlphabet] : k \in 0..n}

Pad(k) == [i \in 1..k |-> "a"]

SanInputs ==
    Short(MaxInLen)
      \cup {p \o Pad(k) \o q : p \in Short(MaxInLen - 2),
                              k \in (MaxNameLen - 2)..(MaxNameLen + 1),
                              q \in Short(MaxInLen - 1)}

SanInit ==
    /\ cfg = [restrict |-> TRUE, selector |-> FALSE, start |-> "none", login |-> FALSE]
    /\ run = 1
    /\ pc = "off"
    /\ done = {}
    /\ queue = <<>>
    /\ visited = {}
    /\ cur = NoCur
    /\ files = <<>>
    /\ dl = NoDl
    /\ disk = {}
    /\ dirs = {}
    /\ stateFile = NoFile
    /\ exitWhy = ""
    /\ navCount = [u \in PageUrls |-> 0]
    /\ saveCount = [u \in FileUrls |-> 0]
    /\ committed = {}
    /\ writes = {}
    /\ prevStore = {}
    /\ prevExit = ""
    /\ requests = {}
    /\ san \in {[input |-> s, output |-> <<>>, applied |-> FALSE] : s \in SanInputs}

\* a call sanitize_filename(name), lines 54-58
SanApply ==
    /\ ~san.applied
    /\ san' = [san EXCEPT !.output = sanitize_filename(san.input), !.applied = TRUE]
    /\ UNCHANGED <<cfg, run, proc, store, hist>>

SanNext == SanApply

SanSpec == SanInit /\ [][SanNext]_vars

\* the characters C12 names
C12_Forbidden == {"\\", "/", ":", "*", "?", "\"", "<", ">", "|"}

\* C12: the result of sanitize_filename has at most 200 characters and none
\* of the characters \ / : * ? " < > |.
C12_SanitizerBound ==
    san.applied =>
        /\ Len(san.output) <= 200
        /\ \A i \in DOMAIN san.output : san.output[i] \notin C12_Forbidden

\* an argument longer than 200 characters that holds a reserved character
\* was cut to 200
C12_Witness ==
    /\ san.applied
    /\ Len(san.input) > 200
    /\ \E i \in DOMAIN san.input : san.input[i] \in C12_Forbidden
    /\ Len(san.output) = 200

\* C20 as stated: the result of sanitize_filename neither starts nor ends with
\* whitespace and holds no two whitespace characters in a row, also when the
\* argument is long enough to be truncated.
C20_WhitespaceNormalised ==
    san.applied =>
        LET out == san.output
        IN  /\ out # <<>> => (out[1] \notin Whitespace /\ out[Len(out)] \notin Whitespace)
            /\ \A i \in 1..(Len(out) - 1) :
                   ~(out[i] \in Whitespace /\ out[i + 1] \in Whitespace)

NoStartUrl == ~DocsSet(cfg) /\ ~BaseSet(cfg)

\* C13: with no start URL the run ends at the start: no frontier entry is
\* created, nothing is navigated to, clicked, fetched or written, and the
\* state file is left as it was.
C13_ConfigurationError ==
    /\ [](exitWhy = "no_start_url"
            => /\ pc = "aborted"
               /\ queue = <<>>
               /\ visited = {}
               /\ \A r \in requests : r.kind = "login"
               /\ \A u \in PageUrls : navCount[u] = 0
               /\ writes = {}
               /\ SavedUrls = {})
    /\ [][(pc = "start" /\ NoStartUrl)
            => /\ pc' \in {"aborted", "crashed"}
               /\ queue' = <<>>
               /\ stateFile' = stateFile
               /\ disk' = disk
         ]_vars

\* the run was aborted, after the login, over a populated state file
C13_Witness ==
    /\ NoStartUrl
    /\ pc = "aborted"
    /\ exitWhy = "no_start_url"
    /\ cfg.login
    /\ stateFile = Dumps({uF1})
    /\ done = {uF1}

\* C14 as stated: while the run goes on, every URL the loop has tried to
\* navigate to, with success or with a timeout, is in the visited set.
C14_VisitedAfterAttempt ==
    (pc \in Running \cup {"done"})
        => \A u \in PageUrls : navCount[u] > 0 => u \in visited

\* C15 as stated (its safety half): whatever the navigation and download
\* outcomes, the traversal loop stops only when the frontier is empty.
C15_StopsOnlyOnEmptyFrontier ==
    (pc \in {"done", "crashed"}) => queue = <<>>

\* C16: when the fallback fetch of a file fails (the navigation raises, or
\* the response is missing or not ok), no file is written and no directory
\* created, the URL enters neither the in-memory nor the persisted set,
\* the file loop goes on with the next reference, and a run that loads
\* the store afterwards does not skip the URL.
C16_FailedDownloadLeavesNoRecord ==
    [][(pc = "fetch" /\ pc' = "files") =>
          /\ disk' = disk /\ dirs' = dirs /\ writes' = writes
          /\ done' = done /\ dl.url \notin done'
          /\ stateFile' = stateFile /\ dl.url \notin Content(stateFile')
          /\ files' = Tail(files) /\ exitWhy' = exitWhy
          /\ ~AlreadyDownloaded(dl.url, load_state(stateFile'))]_vars

\* the fetch of /dl?f=1 failed on the start page: nothing was written or
\* recorded, and page /a, which links the same file, is at its fetch again
C16_Witness ==
    /\ pc = "fetch" /\ dl.url = uF1 /\ cur.abs_url = uA
    /\ [kind |-> "fetch", url |-> uF1] \in requests
    /\ saveCount[uF1] = 0 /\ uF1 \notin done
    /\ \A w \in writes : w.url # uF1

\* the number of folder links followed from the start page to an entry
Depth(e) == Len(LinkTexts(e.chain))

\* C17: the frontier is a strict FIFO. Every change of the queue inside a
\* run happens at the top of the loop, removes the entry at the front and
\* puts new entries only behind the ones already waiting; hence the queue
\* is always ordered by link depth, and an entry of depth d leaves it
\* before any entry of depth d+1.
C17_StrictFifo ==
    /\ [][(queue' # queue /\ pc # "start" /\ pc' # "start") =>
            /\ pc = "loop" /\ queue # <<>>
            /\ Len(queue') >= Len(queue) - 1
            /\ SubSeq(queue', 1, Len(queue) - 1) = Tail(queue)]_vars
    /\ [](\A i, j \in 1..Len(queue) :
             i < j => Depth(queue[i]) <= Depth(queue[j]))

\* page /a was dequeued and its folders enqueued while an entry of the
\* start page is still waiting in front of them
C17_Witness ==
    /\ cur.abs_url = uA /\ pc = "files"
    /\ Len(queue) >= 2
    /\ Depth(queue[1]) = 1 /\ Depth(queue[Len(queue)]) = 2

\* C18 as stated: two different file URLs that are both in the downloaded
\* set were never written to the same local path.
C18_FilePerLeaf ==
    \A w1, w2 \in writes :
        (w1.url # w2.url /\ w1.url \in done /\ w2.url \in done)
            => w1.path # w2.path

\* the ".." segment of a path
DotDot == <<".", ".">>

\* a path relative to the download root stays inside the root: no prefix
\* of it has more ".." segments than other segments
Inside(path) ==
    \A k \in 1..Len(path) :
        2 * Cardinality({i \in 1..k : path[i] = DotDot}) <= k

\* C19 as stated: every directory created and every file written lies
\* inside the download root, whatever link texts, current-folder names
\* and file names the remote site supplies.
C19_RootContainment ==
    /\ \A d \in dirs : Inside(d)
    /\ \A e \in disk : Inside(e.path)

====
